---- MODULE Spec2Model ----
(***************************************************************************)
(* ANCA content pipeline: the ArticleState map-reduce pipeline (writers,   *)
(* assembler, fact checker, refiner, auditor), the section-list reducer,   *)
(* and the v1 message graph of run_graph.py.                               *)
(*                                                                         *)
(* Spec      - the ArticleState pipeline (fan-out, assembly, review loops) *)
(* SpecMerge - the sections_content reducer applied to result batches      *)
(* SpecV1    - the researcher/generator/critique/auditor/reviser graph     *)
(***************************************************************************)
EXTENDS Integers, Sequences, FiniteSets, TLC

VARIABLES
    state,      \* ArticleState: feedback, revision_number, filename, fact_errors,
                \* sections_content, final_article
    stage,      \* node the executor runs next
    blueprint,  \* number of Section entries of the Blueprint
    pending,    \* fan-out units not yet finished
    emitted,    \* writer_node return values, in completion order
    failed,     \* order indexes of the units whose chain raised
    draft_body, \* the joined section text the assembler hands to its chain
    file,       \* content of the article file on disk
    last,       \* node that ran last and the branch it took
    steps,      \* review-loop nodes executed so far
    refines,    \* successful refiner applications so far
    audit_always_failed, \* no audit so far passed or raised
    acc,        \* SpecMerge: accumulated sections_content
    batch,      \* SpecMerge: the completed result set that is merged
    merges,     \* SpecMerge: number of merges run
    once,       \* SpecMerge: the list after the first merge
    v1node,     \* SpecV1: node the executor runs next
    v1state,    \* SpecV1: AgentState: revision_count, critique_count, messages
    v1last,     \* SpecV1: node that ran last
    v1route,    \* SpecV1, SpecMain: name the last router call returned
    v1input,    \* SpecV1: discovery/niche flags of the initial state of the job
    v2node,     \* SpecV2: node the executor runs next
    v2state,    \* SpecV2: EnhancedAgentState fields the routers read
    v2steps,     \* SpecV2: steps the executor has taken
    v2runs,      \* SpecV2: replan edges taken, targeted revisions executed
    snstate,    \* SpecSniperRouter: the ArbitrageState handed to the routers
    snbefore,   \* SpecSniperRouter: that state before the last router call
    snlast,     \* SpecSniperRouter: last router call (router, returned name)
    snprev,     \* SpecSniperRouter: the router call before the last
    sncalls,    \* SpecSniperRouter: router calls made
    sgnode,     \* SpecSniper: node the executor runs next
    sgstate,    \* SpecSniper: ArbitrageState of the run
    sgrun,      \* SpecSniper: queries planned, queries the search stage ran with
    sgsteps,    \* SpecSniper: steps the executor has taken
    current_job,  \* SpecSniperApi: the in-memory job store
    api_queued,   \* SpecSniperApi: background tasks added and not yet started
    api_running,  \* SpecSniperApi: run_sniper_task calls in progress
    api_requests, \* SpecSniperApi: POST /run requests handled
    api_response, \* SpecSniperApi: response to the last POST /run
    jobs,         \* SpecJob: JobService.jobs, job id -> job data
    job_tasks,    \* SpecJob: jobs whose run_job task is added and not started
    limiter,      \* SpecRateLimiter: max_calls_per_day, calls_today, reset_time
    now,          \* SpecRateLimiter: the day datetime.now() falls in
    window,       \* SpecRateLimiter: calls made and allowed since the last reset
    allowed       \* SpecRateLimiter: what the last check_and_increment returned

vars == <<state, stage, blueprint, pending, emitted, failed, draft_body, file, last,
          steps, refines, audit_always_failed, acc, batch, merges, once, v1node, v1state, v1last, v1route, v1input,
          v2node, v2state, v2steps, v2runs, snstate, snbefore, snlast, snprev, sncalls,
          sgnode, sgstate, sgrun, sgsteps,
          current_job, api_queued, api_running, api_requests, api_response,
          jobs, job_tasks, limiter, now, window, allowed>>

pipeVars  == <<state, stage, blueprint, pending, emitted, failed, draft_body, file,
               last, steps, refines, audit_always_failed>>
mergeVars == <<acc, batch, merges, once>>
v1Vars    == <<v1node, v1state, v1last, v1route, v1input>>
v2Vars    == <<v2node, v2state, v2steps, v2runs>>
snVars    == <<snstate, snbefore, snlast, snprev, sncalls>>
sgVars    == <<sgnode, sgstate, sgrun, sgsteps>>
apiVars   == <<current_job, api_queued, api_running, api_requests, api_response>>
jobVars   == <<jobs, job_tasks>>
rlVars    == <<limiter, now, window, allowed>>

----------------------------------------------------------------------------
(* Bounds *)

MaxSections == 3    \* largest Blueprint explored
MaxSteps    == 12   \* review-loop nodes explored per run
MaxMerges   == 2    \* merges of one batch explored
MaxQueries  == 2    \* pending search queries of a sniper state
MaxCalls    == 3    \* router calls made on one sniper state
MaxSniperSteps == 13 \* steps of one sniper run explored
MaxRequests == 4    \* POST /run requests handled
MaxJobs     == 3    \* content-generation jobs created
MaxCallsPerDay == 3 \* largest max_calls_per_day of a RateLimiter
MaxDays     == 2    \* days the clock advances
MaxWindowCalls == 5 \* check_and_increment calls between two resets

(* Loop guard maximum of the revision state machine (default 3). *)
MaxRevisions == 3

----------------------------------------------------------------------------
(* Values *)

NONE == "<None>"                       \* Python None

AuditErrorFeedback == "Error during audit. Passing by default."

(* str.lower() on the error_details values the fact checker can return. *)
Lower(s) ==
    CASE s = "None" -> "none"
      [] s = "NONE" -> "none"
      [] s = "TRUE" -> "true"
      [] s = "True" -> "true"
      [] s = "False" -> "false"
      [] OTHER -> s

(* FactCheckResult.parse_bool: a str is true iff it lower-cases to 'true';  *)
(* a bool passes through.  Raw values are <<type, text>>.                   *)
parse_bool(v) ==
    IF v[1] = "str" THEN Lower(v[2]) = "true" ELSE v[2] = "true"

HasErrorsRaw == { <<"bool", "true">>, <<"bool", "false">>,
                  <<"str", "True">>, <<"str", "true">>, <<"str", "False">>,
                  <<"str", "yes">> }

ErrorDetails == { "None", "none", "wrong date", "wrong price" }

(* Outcomes of the FactVerifier chain: an exception (provider failure or a *)
(* result that does not parse) or a FactCheckResult.                       *)
FactResponses ==
    { [ok |-> FALSE, has_errors |-> <<"bool", "false">>, error_details |-> "None"] }
    \cup { [ok |-> TRUE, has_errors |-> h, error_details |-> d] :
             h \in HasErrorsRaw, d \in ErrorDetails }

AuditFeedbackTexts == { "fix intro", "too short" }

AuditResponses ==
    { [ok |-> FALSE, pass_audit |-> FALSE, feedback |-> "x"] }
    \cup { [ok |-> TRUE, pass_audit |-> p, feedback |-> f] :
             p \in BOOLEAN, f \in AuditFeedbackTexts }

(* f-string of fact_checker_node line 68 *)
CriticalFeedback(details) ==
    CASE details = "wrong date"  -> "CRITICAL FACTUAL ERRORS FOUND: wrong date"
      [] details = "wrong price" -> "CRITICAL FACTUAL ERRORS FOUND: wrong price"
      [] OTHER                   -> "CRITICAL FACTUAL ERRORS FOUND: "

----------------------------------------------------------------------------
(* Section list reducer and assembly *)

(* operator.add on two lists *)
operator_add(a, b) == a \o b

(* sorted(xs, key=order): stable insertion sort *)
RECURSIVE InsertByOrder(_, _)
InsertByOrder(x, s) ==
    IF s = << >> THEN << x >>
    ELSE IF x["order"] < Head(s)["order"]
         THEN << x >> \o s
         ELSE << Head(s) >> \o InsertByOrder(x, Tail(s))

RECURSIVE sorted(_)
sorted(xs) ==
    IF xs = << >> THEN << >>
    ELSE InsertByOrder(xs[Len(xs)], sorted(SubSeq(xs, 1, Len(xs) - 1)))

(* assembler_node with the sort of line 52 left out: arrival order *)
assembler_draft_body_unsorted(sections_content) ==
    [i \in 1..Len(sections_content) |-> sections_content[i]["content"]]

(* assembler_node lines 50-55: sort by order, take the contents *)
assembler_draft_body(sections_content) ==
    LET s == sorted(sections_content)
    IN  [i \in 1..Len(s) |-> s[i]["content"]]

(* writer_node whose except branch returns no result *)
writer_node_drops_failure(order, ok) ==
    IF ok
    THEN << [order |-> order, content |-> <<"section", order>>] >>
    ELSE << >>

(* writer_node lines 74-96: one list holding one result for the unit's own *)
(* order, the written section or the error placeholder                     *)
writer_node(order, ok) ==
    IF ok
    THEN << [order |-> order, content |-> <<"section", order>>] >>
    ELSE << [order |-> order, content |-> <<"Error writing this section", order>>] >>

(* LangGraph applies the reducer of sections_content to every writer       *)
(* return value, in the order the fan-out hands them over.                 *)
RECURSIVE Reduce(_, _)
Reduce(list, updates) ==
    IF updates = << >> THEN list
    ELSE Reduce(operator_add(list, Head(updates)), Tail(updates))

----------------------------------------------------------------------------
(* Review-loop nodes: each maps the state and the collaborator's response  *)
(* to the state after the node's partial update is applied.                *)

(* fact_checker_node whose error branch sets the feedback only *)
fact_checker_node_drops_errors(st, r) ==
    IF ~r.ok
    THEN [st EXCEPT !.fact_errors = NONE]
    ELSE IF parse_bool(r.has_errors) /\ Lower(r.error_details) # "none"
         THEN [st EXCEPT !.fact_errors = NONE,
                         !.feedback = CriticalFeedback(r.error_details)]
         ELSE [st EXCEPT !.fact_errors = NONE]

(* fact_checker_node whose except branch returns no update *)
fact_checker_node_keeps_errors(st, r) ==
    IF ~r.ok
    THEN st
    ELSE IF parse_bool(r.has_errors) /\ Lower(r.error_details) # "none"
         THEN [st EXCEPT !.fact_errors = r.error_details,
                         !.feedback = CriticalFeedback(r.error_details)]
         ELSE [st EXCEPT !.fact_errors = NONE]

(* fact_checker_node lines 58-80 *)
fact_checker_node(st, r) ==
    IF ~r.ok
    THEN [st EXCEPT !.fact_errors = NONE]
    ELSE IF parse_bool(r.has_errors) /\ Lower(r.error_details) # "none"
         THEN [st EXCEPT !.fact_errors = r.error_details,
                         !.feedback = CriticalFeedback(r.error_details)]
         ELSE [st EXCEPT !.fact_errors = NONE]

fact_checker_branch(r) ==
    IF ~r.ok THEN "exception"
    ELSE IF parse_bool(r.has_errors) /\ Lower(r.error_details) # "none"
         THEN "errors" ELSE "clean"

(* auditor_node lines 50-66 *)
auditor_node(st, r) ==
    IF ~r.ok
    THEN [st EXCEPT !.feedback = AuditErrorFeedback, !.revision_number = 0]
    ELSE [st EXCEPT !.feedback = IF r.pass_audit THEN NONE ELSE r.feedback,
                    !.revision_number = st.revision_number]

auditor_branch(r) ==
    IF ~r.ok THEN "exception" ELSE IF r.pass_audit THEN "pass" ELSE "fail"

(* refiner_node whose except branch clears the feedback and counts the    *)
(* failed attempt                                                          *)
refiner_node_counts_failure(st, r) ==
    IF r.ok
    THEN [st EXCEPT !.final_article = r.content,
                    !.revision_number = st.revision_number + 1,
                    !.feedback = NONE]
    ELSE [st EXCEPT !.revision_number = st.revision_number + 1,
                    !.feedback = NONE]

(* refiner_node lines 44-72 *)
refiner_node(st, r) ==
    IF r.ok
    THEN [st EXCEPT !.final_article = r.content,
                    !.revision_number = st.revision_number + 1,
                    !.feedback = NONE]
    ELSE st

(* refiner_node lines 53-61: overwrite the stored file; a failed write is  *)
(* logged and ignored                                                      *)
refiner_file(st, r, writeOk, f) ==
    IF r.ok /\ st.filename # NONE /\ writeOk THEN r.content ELSE f

(* ArticleState declares no diagnostic or warning field and no node        *)
(* returns one: the flag reads as unset in every state.                    *)
diagnostic_flag(st) ==
    IF "diagnostic" \in DOMAIN st THEN st["diagnostic"] ELSE FALSE

(* assembler_node lines 76-94 *)
assembler_node(st, content) ==
    [st EXCEPT !.final_article = content, !.filename = "article.md"]

----------------------------------------------------------------------------
(* Routers of the revision state machine *)

route_after_fact_check(st) ==
    IF st.fact_errors # NONE
    THEN IF st.revision_number >= MaxRevisions THEN "END" ELSE "refiner"
    ELSE "auditor"

route_after_audit(st) ==
    IF st.feedback # NONE
    THEN IF st.revision_number >= MaxRevisions THEN "END" ELSE "refiner"
    ELSE "END"

route_after_refine(st) == "fact_checker"

----------------------------------------------------------------------------
(* The pipeline *)

AssembledText == 1
RefinedText(k) == k + 1     \* text produced by the k-th successful refine

InitState ==
    [ feedback |-> NONE, revision_number |-> 0, filename |-> NONE,
      fact_errors |-> NONE, sections_content |-> << >>, final_article |-> 0 ]

(* Fan-out dispatch: one unit per SectionSpec, carrying its order index. *)
FanOutUnits(n) == 0..(n - 1)

PipeInit ==
    /\ blueprint \in 1..MaxSections
    /\ state = InitState
    /\ stage = "writers"
    /\ pending = FanOutUnits(blueprint)
    /\ emitted = << >>
    /\ failed = {}
    /\ draft_body = << >>
    /\ file = 0
    /\ last = [node |-> "START", branch |-> "-"]
    /\ steps = 0
    /\ refines = 0
    /\ audit_always_failed = TRUE

PipeIdle ==
    /\ blueprint = 1
    /\ state = InitState
    /\ stage = "IDLE"
    /\ pending = {}
    /\ emitted = << >>
    /\ failed = {}
    /\ draft_body = << >>
    /\ file = 0
    /\ last = [node |-> "START", branch |-> "-"]
    /\ steps = 0
    /\ refines = 0
    /\ audit_always_failed = TRUE

MergeIdle == acc = << >> /\ batch = << >> /\ merges = 0 /\ once = << >>

V1InitState == [revision_count |-> 0, critique_count |-> 0, messages |-> << >>]

(* JobService.create_job defaults: discover_mode False, niche None *)
V1NoInput == [discover_mode |-> FALSE, niche |-> NONE]

V1Idle ==
    /\ v1node = "IDLE" /\ v1state = V1InitState /\ v1last = "START"
    /\ v1route = "-" /\ v1input = V1NoInput

(* create_initial_state: nothing validated, no iteration counted, score 0 *)
V2InitState ==
    [ outline_validated |-> FALSE, outline_planning |-> 0, refinement |-> 0,
      quality_score |-> 0, phase |-> "planning" ]

V2NoRuns == [replans |-> 0, revisions |-> 0]

V2Idle ==
    v2node = "IDLE" /\ v2state = V2InitState /\ v2steps = 0 /\ v2runs = V2NoRuns

SgInitState == [pending_queries |-> << >>, search_query |-> NONE,
                is_autonomous |-> FALSE, category_id |-> NONE]

SgNoRun == [planner_ran |-> FALSE, planned |-> << >>, handed |-> << >>]

SgIdle ==
    /\ sgnode = "IDLE"
    /\ sgstate = SgInitState
    /\ sgrun = SgNoRun
    /\ sgsteps = 0

(* current_job at import, sniper.py lines 21-26 *)
IdleJob == [status |-> "idle", result |-> NONE, error |-> NONE]

ApiIdle ==
    /\ current_job = IdleJob
    /\ api_queued = 0
    /\ api_running = 0
    /\ api_requests = 0
    /\ api_response = "-"

(* JobService.__init__: no job *)
JobIdle == jobs = << >> /\ job_tasks = {}

NoWindow == [calls |-> 0, allowed |-> 0]

RlIdle ==
    /\ limiter = [max_calls_per_day |-> 0, calls_today |-> 0, reset_time |-> 1]
    /\ now = 0
    /\ window = NoWindow
    /\ allowed = FALSE

NoCall == [router |-> "-", ret |-> "-"]

SnInitState == [pending_queries |-> << >>, search_query |-> NONE,
                is_autonomous |-> FALSE]

SnIdle ==
    /\ snstate = SnInitState
    /\ snbefore = SnInitState
    /\ snlast = NoCall
    /\ snprev = NoCall
    /\ sncalls = 0

Init ==
    PipeInit /\ MergeIdle /\ V1Idle /\ V2Idle /\ SnIdle /\ SgIdle /\ ApiIdle
        /\ JobIdle /\ RlIdle

(* A fan-out unit that appends its result to the shared state itself *)
WriterUnit_writes_state ==
    /\ stage = "writers"
    /\ \E order \in pending, ok \in BOOLEAN :
         /\ state' = [state EXCEPT
                         !.sections_content = operator_add(@, writer_node(order, ok))]
         /\ emitted' = emitted
         /\ pending' = pending \ {order}
         /\ failed' = IF ok THEN failed ELSE failed \cup {order}
         /\ last' = [node |-> "writer", branch |-> IF ok THEN "ok" ELSE "fail"]
    /\ UNCHANGED <<stage, blueprint, draft_body, file, steps, refines,
                   audit_always_failed>>
    /\ UNCHANGED <<mergeVars, v1Vars, v2Vars, snVars, sgVars, apiVars, jobVars, rlVars>>

(* One fan-out unit finishes: the unit for SectionSpec `order` returns.    *)
WriterUnit ==
    /\ stage = "writers"
    /\ \E order \in pending, ok \in BOOLEAN :
         /\ emitted' = Append(emitted, writer_node(order, ok))
         /\ pending' = pending \ {order}
         /\ failed' = IF ok THEN failed ELSE failed \cup {order}
         /\ last' = [node |-> "writer", branch |-> IF ok THEN "ok" ELSE "fail"]
    /\ UNCHANGED <<state, stage, blueprint, draft_body, file, steps, refines,
                   audit_always_failed>>
    /\ UNCHANGED <<mergeVars, v1Vars, v2Vars, snVars, sgVars, apiVars, jobVars, rlVars>>

(* Fan-in: every unit has returned; the returned lists are reduced into    *)
(* sections_content and control passes to the assembler.                   *)
FanIn ==
    /\ stage = "writers"
    /\ pending = {}
    /\ state' = [state EXCEPT !.sections_content = Reduce(@, emitted)]
    /\ emitted' = << >>
    /\ stage' = "assembler"
    /\ last' = [node |-> "fan_in", branch |-> "-"]
    /\ UNCHANGED <<blueprint, pending, failed, draft_body, file, steps, refines,
                   audit_always_failed>>
    /\ UNCHANGED <<mergeVars, v1Vars, v2Vars, snVars, sgVars, apiVars, jobVars, rlVars>>

Assembler ==
    /\ stage = "assembler"
    /\ draft_body' = assembler_draft_body(state.sections_content)
    /\ \E ok \in BOOLEAN :
         IF ok
         THEN /\ state' = assembler_node(state, AssembledText)
              /\ file' = AssembledText
              /\ stage' = "fact_checker"
              /\ last' = [node |-> "assembler", branch |-> "ok"]
         ELSE /\ stage' = "ERROR"      \* the exception is re-raised
              /\ last' = [node |-> "assembler", branch |-> "exception"]
              /\ UNCHANGED <<state, file>>
    /\ UNCHANGED <<blueprint, pending, emitted, failed, steps, refines,
                   audit_always_failed>>
    /\ UNCHANGED <<mergeVars, v1Vars, v2Vars, snVars, sgVars, apiVars, jobVars, rlVars>>

FactChecker ==
    /\ stage = "fact_checker"
    /\ steps < MaxSteps
    /\ \E r \in FactResponses :
         /\ state' = fact_checker_node(state, r)
         /\ last' = [node |-> "fact_checker", branch |-> fact_checker_branch(r)]
    /\ stage' = route_after_fact_check(state')
    /\ steps' = steps + 1
    /\ UNCHANGED <<blueprint, pending, emitted, failed, draft_body, file, refines,
                   audit_always_failed>>
    /\ UNCHANGED <<mergeVars, v1Vars, v2Vars, snVars, sgVars, apiVars, jobVars, rlVars>>

Refiner ==
    /\ stage = "refiner"
    /\ steps < MaxSteps
    /\ \E ok \in BOOLEAN, writeOk \in BOOLEAN :
         LET r == [ok |-> ok, content |-> RefinedText(refines + 1)]
         IN  /\ state' = refiner_node(state, r)
             /\ file' = refiner_file(state, r, writeOk, file)
             /\ refines' = IF ok THEN refines + 1 ELSE refines
             /\ last' = [node |-> "refiner", branch |-> IF ok THEN "ok" ELSE "exception"]
    /\ stage' = route_after_refine(state')
    /\ steps' = steps + 1
    /\ UNCHANGED <<blueprint, pending, emitted, failed, draft_body, audit_always_failed>>
    /\ UNCHANGED <<mergeVars, v1Vars, v2Vars, snVars, sgVars, apiVars, jobVars, rlVars>>

Auditor ==
    /\ stage = "auditor"
    /\ steps < MaxSteps
    /\ \E r \in AuditResponses :
         /\ state' = auditor_node(state, r)
         /\ last' = [node |-> "auditor", branch |-> auditor_branch(r)]
         /\ audit_always_failed' = (audit_always_failed /\ auditor_branch(r) = "fail")
    /\ stage' = route_after_audit(state')
    /\ steps' = steps + 1
    /\ UNCHANGED <<blueprint, pending, emitted, failed, draft_body, file, refines>>
    /\ UNCHANGED <<mergeVars, v1Vars, v2Vars, snVars, sgVars, apiVars, jobVars, rlVars>>

Next ==
    \/ WriterUnit
    \/ FanIn
    \/ Assembler
    \/ FactChecker
    \/ Refiner
    \/ Auditor

Spec == Init /\ [][Next]_vars

----------------------------------------------------------------------------
(* The reducer of sections_content, run over a completed result set *)

(* Every completed result set: one writer_node return value per section of *)
(* a Blueprint, in any completion order, each written or failed.           *)
CompletedBatches ==
    UNION { { [i \in 1..n |-> writer_node(perm[i], oks[i])] :
                perm \in { f \in [1..n -> 0..(n - 1)] :
                             \A i, j \in 1..n : f[i] = f[j] => i = j },
                oks \in [1..n -> BOOLEAN] } : n \in 1..MaxSections }

MergeInit ==
    /\ batch \in CompletedBatches
    /\ acc = << >>
    /\ merges = 0
    /\ once = << >>

(* The fan-in merge: the reducer folds the batch into the section list. *)
RunMerge ==
    /\ merges < MaxMerges
    /\ acc' = Reduce(acc, batch)
    /\ merges' = merges + 1
    /\ once' = IF merges = 0 THEN acc' ELSE once
    /\ UNCHANGED batch
    /\ UNCHANGED <<pipeVars, v1Vars, v2Vars, snVars, sgVars, apiVars, jobVars, rlVars>>

NextMerge == RunMerge

InitMerge ==
    PipeIdle /\ MergeInit /\ V1Idle /\ V2Idle /\ SnIdle /\ SgIdle /\ ApiIdle
        /\ JobIdle /\ RlIdle

SpecMerge == InitMerge /\ [][NextMerge]_vars

----------------------------------------------------------------------------
(* The v1 graph of run_graph.py *)

NoScore == -1
Scores == { NoScore, 8, 9 }
Statuses == { "-", "PASS", "FAIL" }

PlainMessage == [status |-> "-", score |-> NoScore]

(* add_messages: new messages are appended *)
add_messages(messages, new) == messages \o new

(* researcher_node_wrapper lines 117-127 *)
researcher_node_wrapper(st, msg) ==
    [st EXCEPT !.messages = add_messages(@, << msg >>)]

(* generator_node_wrapper lines 129-196 *)
generator_node_wrapper(st, msg) ==
    [st EXCEPT !.messages = add_messages(@, << msg >>)]

(* critique_node_wrapper lines 255-279 *)
critique_node_wrapper(st, msg) ==
    [st EXCEPT !.messages = add_messages(@, << msg >>),
               !.critique_count = st.critique_count + 1]

(* auditor_node_wrapper lines 198-212 *)
auditor_node_wrapper(st, msg) ==
    [st EXCEPT !.messages = add_messages(@, << msg >>)]

(* reviser_node_wrapper lines 214-253 *)
reviser_node_wrapper(st, msg) ==
    [st EXCEPT !.messages = add_messages(@, << msg >>),
               !.revision_count = st.revision_count + 1]

(* should_continue_critique with the count test `>` in place of `>=` *)
should_continue_critique_gt(st) ==
    IF st.critique_count > 3 THEN "auditor"
    ELSE LET withStatus == { i \in 1..Len(st.messages) : st.messages[i].status # "-" }
         IN  IF withStatus = {} THEN "auditor"
             ELSE LET newest == CHOOSE i \in withStatus : \A j \in withStatus : j <= i
                  IN  IF st.messages[newest].status = "PASS"
                      THEN "auditor" ELSE "generator"

(* should_continue_critique lines 281-318: the newest message carrying a   *)
(* status decides                                                          *)
should_continue_critique(st) ==
    IF st.critique_count >= 3 THEN "auditor"
    ELSE LET withStatus == { i \in 1..Len(st.messages) : st.messages[i].status # "-" }
         IN  IF withStatus = {} THEN "auditor"
             ELSE LET newest == CHOOSE i \in withStatus : \A j \in withStatus : j <= i
                  IN  IF st.messages[newest].status = "PASS"
                      THEN "auditor" ELSE "generator"

(* should_continue_revising with the count test `>` in place of `>=` *)
should_continue_revising_gt(st) ==
    IF st.revision_count > 3 THEN "end"
    ELSE IF \E i \in 1..Len(st.messages) :
               st.messages[i].score # NoScore /\ st.messages[i].score >= 9
         THEN "end"
         ELSE "auditor"

(* should_continue_revising lines 320-355: the scan over reversed(messages) *)
(* returns "end" at the first score >= 9 and does not stop at a lower one.  *)
(* A node's instruction message repeats the markers of the message before   *)
(* it, so one message per node carries every marker the scan can meet.      *)
should_continue_revising(st) ==
    IF st.revision_count >= 3 THEN "end"
    ELSE IF \E i \in 1..Len(st.messages) :
               st.messages[i].score # NoScore /\ st.messages[i].score >= 9
         THEN "end"
         ELSE "auditor"

(* add_conditional_edges mappings, lines 375-396 *)
critique_edges(name) == name
reviser_edges(name) == IF name = "end" THEN "END" ELSE name

V1Init ==
    /\ v1node = "researcher"
    /\ v1state = V1InitState
    /\ v1last = "START"
    /\ v1route = "-"
    /\ v1input \in [discover_mode : BOOLEAN, niche : {NONE, "niche"}]

V1Researcher ==
    /\ v1node = "researcher"
    /\ v1state' = researcher_node_wrapper(v1state, PlainMessage)
    /\ v1node' = "generator"
    /\ v1last' = "researcher"
    /\ UNCHANGED <<v1route, v1input>>
    /\ UNCHANGED <<pipeVars, mergeVars, v2Vars, snVars, sgVars, apiVars, jobVars, rlVars>>

V1Generator ==
    /\ v1node = "generator"
    /\ v1state' = generator_node_wrapper(v1state, PlainMessage)
    /\ v1node' = "critique"
    /\ v1last' = "generator"
    /\ UNCHANGED <<v1route, v1input>>
    /\ UNCHANGED <<pipeVars, mergeVars, v2Vars, snVars, sgVars, apiVars, jobVars, rlVars>>

V1Critique ==
    /\ v1node = "critique"
    /\ \E status \in Statuses :
         v1state' = critique_node_wrapper(v1state, [status |-> status, score |-> NoScore])
    /\ v1route' = should_continue_critique(v1state')
    /\ v1node' = critique_edges(v1route')
    /\ v1last' = "critique"
    /\ UNCHANGED v1input
    /\ UNCHANGED <<pipeVars, mergeVars, v2Vars, snVars, sgVars, apiVars, jobVars, rlVars>>

V1Auditor ==
    /\ v1node = "auditor"
    /\ \E score \in Scores :
         v1state' = auditor_node_wrapper(v1state, [status |-> "-", score |-> score])
    /\ v1node' = "reviser"
    /\ v1last' = "auditor"
    /\ UNCHANGED <<v1route, v1input>>
    /\ UNCHANGED <<pipeVars, mergeVars, v2Vars, snVars, sgVars, apiVars, jobVars, rlVars>>

V1Reviser ==
    /\ v1node = "reviser"
    /\ \E score \in Scores :
         v1state' = reviser_node_wrapper(v1state, [status |-> "-", score |-> score])
    /\ v1route' = should_continue_revising(v1state')
    /\ v1node' = reviser_edges(v1route')
    /\ v1last' = "reviser"
    /\ UNCHANGED v1input
    /\ UNCHANGED <<pipeVars, mergeVars, v2Vars, snVars, sgVars, apiVars, jobVars, rlVars>>

NextV1 ==
    \/ V1Researcher
    \/ V1Generator
    \/ V1Critique
    \/ V1Auditor
    \/ V1Reviser

InitV1 ==
    PipeIdle /\ MergeIdle /\ V1Init /\ V2Idle /\ SnIdle /\ SgIdle /\ ApiIdle
        /\ JobIdle /\ RlIdle

SpecV1 == InitV1 /\ [][NextV1]_vars

(* The executor always runs the node it has scheduled: every node call of  *)
(* the v1 graph returns, so a step that is possible is eventually taken.   *)
SpecV1Fair == InitV1 /\ [][NextV1]_vars /\ WF_vars(NextV1)

----------------------------------------------------------------------------
(* The graph of main.py: researcher, writer, critique, auditor, reviser *)

END == "__end__"       \* langgraph.graph.END

(* main.py critique_node lines 113-125, reviser_node lines 136-147 *)
main_critique_node(st, msg) ==
    [st EXCEPT !.messages = add_messages(@, << msg >>),
               !.critique_count = st.critique_count + 1]

main_reviser_node(st, msg) ==
    [st EXCEPT !.messages = add_messages(@, << msg >>),
               !.revision_count = st.revision_count + 1]

(* researcher_node, writer_node, auditor_node of main.py lines 81-134 *)
main_append_node(st, msg) ==
    [st EXCEPT !.messages = add_messages(@, << msg >>)]

(* should_loop_critique lines 151-164: only the last message is read *)
should_loop_critique(st) ==
    IF st.critique_count >= 3 THEN "auditor"
    ELSE IF st.messages # << >> /\ st.messages[Len(st.messages)].status = "PASS"
         THEN "auditor"
         ELSE "writer"

(* should_loop_revision lines 166-170 *)
should_loop_revision(st) ==
    IF st.revision_count >= 2 THEN END ELSE "auditor"

(* path maps of add_conditional_edges, lines 186-203 *)
main_critique_map == [auditor |-> "auditor", writer |-> "writer"]
main_reviser_map  == [auditor |-> "auditor", end |-> END]

(* The executor looks the returned name up in the path map; a name that    *)
(* is not a key is a KeyError.                                             *)
FollowEdge(map, name) ==
    IF name \in DOMAIN map THEN map[name] ELSE "KeyError"

MainInit ==
    /\ v1node = "researcher"
    /\ v1state = V1InitState
    /\ v1last = "START"
    /\ v1route = "-"
    /\ v1input = V1NoInput

MainResearcher ==
    /\ v1node = "researcher"
    /\ v1state' = main_append_node(v1state, PlainMessage)
    /\ v1node' = "writer"
    /\ v1last' = "researcher"
    /\ UNCHANGED <<v1route, v1input>>
    /\ UNCHANGED <<pipeVars, mergeVars, v2Vars, snVars, sgVars, apiVars, jobVars, rlVars>>

MainWriter ==
    /\ v1node = "writer"
    /\ v1state' = main_append_node(v1state, PlainMessage)
    /\ v1node' = "critique"
    /\ v1last' = "writer"
    /\ UNCHANGED <<v1route, v1input>>
    /\ UNCHANGED <<pipeVars, mergeVars, v2Vars, snVars, sgVars, apiVars, jobVars, rlVars>>

MainCritique ==
    /\ v1node = "critique"
    /\ \E status \in Statuses :
         v1state' = main_critique_node(v1state, [status |-> status, score |-> NoScore])
    /\ v1route' = should_loop_critique(v1state')
    /\ v1node' = FollowEdge(main_critique_map, v1route')
    /\ v1last' = "critique"
    /\ UNCHANGED v1input
    /\ UNCHANGED <<pipeVars, mergeVars, v2Vars, snVars, sgVars, apiVars, jobVars, rlVars>>

MainAuditor ==
    /\ v1node = "auditor"
    /\ \E score \in Scores :
         v1state' = main_append_node(v1state, [status |-> "-", score |-> score])
    /\ v1node' = "reviser"
    /\ v1last' = "auditor"
    /\ UNCHANGED <<v1route, v1input>>
    /\ UNCHANGED <<pipeVars, mergeVars, v2Vars, snVars, sgVars, apiVars, jobVars, rlVars>>

MainReviser ==
    /\ v1node = "reviser"
    /\ \E score \in Scores :
         v1state' = main_reviser_node(v1state, [status |-> "-", score |-> score])
    /\ v1route' = should_loop_revision(v1state')
    /\ v1node' = FollowEdge(main_reviser_map, v1route')
    /\ v1last' = "reviser"
    /\ UNCHANGED v1input
    /\ UNCHANGED <<pipeVars, mergeVars, v2Vars, snVars, sgVars, apiVars, jobVars, rlVars>>

NextMain ==
    \/ MainResearcher
    \/ MainWriter
    \/ MainCritique
    \/ MainAuditor
    \/ MainReviser

InitMain ==
    PipeIdle /\ MergeIdle /\ MainInit /\ V2Idle /\ SnIdle /\ SgIdle /\ ApiIdle
        /\ JobIdle /\ RlIdle

SpecMain == InitMain /\ [][NextMain]_vars

----------------------------------------------------------------------------
(* The routers of the sniper graph (run_sniper.py), applied to a state *)

Queries == {"q1", "q2"}

RECURSIVE SeqsUpTo(_)
SeqsUpTo(n) ==
    IF n = 0 THEN {<< >>}
    ELSE LET shorter == SeqsUpTo(n - 1)
         IN  shorter \cup {Append(q, x) : q \in shorter, x \in Queries}

(* route_planner lines 20-32: a non-empty pending_queries is popped at    *)
(* the front and the popped query is stored in the state it was given.    *)
(* Returns <<state after the call, returned name>>.                       *)
route_planner(st) ==
    LET queries == st.pending_queries
    IN  IF queries # << >>
        THEN << [st EXCEPT !.search_query = Head(queries),
                           !.pending_queries = Tail(queries)], "search" >>
        ELSE << st, END >>

(* route_reflection lines 34-46: the same body *)
route_reflection(st) ==
    LET queries == st.pending_queries
    IN  IF queries # << >>
        THEN << [st EXCEPT !.search_query = Head(queries),
                           !.pending_queries = Tail(queries)], "search" >>
        ELSE << st, END >>

(* route_start lines 59-70 *)
route_start(st) ==
    IF st.search_query # NONE
    THEN IF st.is_autonomous THEN << st, "planner" >> ELSE << st, "search" >>
    ELSE << st, "niche_discovery" >>

SnInit ==
    /\ snstate \in [pending_queries : SeqsUpTo(MaxQueries),
                    search_query : Queries \cup {NONE},
                    is_autonomous : BOOLEAN]
    /\ snbefore = snstate
    /\ snlast = NoCall
    /\ snprev = NoCall
    /\ sncalls = 0

EvalRoutePlanner ==
    /\ sncalls < MaxCalls
    /\ snbefore' = snstate
    /\ snstate' = route_planner(snstate)[1]
    /\ snprev' = snlast
    /\ snlast' = [router |-> "route_planner", ret |-> route_planner(snstate)[2]]
    /\ sncalls' = sncalls + 1
    /\ UNCHANGED <<pipeVars, mergeVars, v1Vars, v2Vars, sgVars, apiVars, jobVars, rlVars>>

EvalRouteReflection ==
    /\ sncalls < MaxCalls
    /\ snbefore' = snstate
    /\ snstate' = route_reflection(snstate)[1]
    /\ snprev' = snlast
    /\ snlast' = [router |-> "route_reflection", ret |-> route_reflection(snstate)[2]]
    /\ sncalls' = sncalls + 1
    /\ UNCHANGED <<pipeVars, mergeVars, v1Vars, v2Vars, sgVars, apiVars, jobVars, rlVars>>

EvalRouteStart ==
    /\ sncalls < MaxCalls
    /\ snbefore' = snstate
    /\ snstate' = route_start(snstate)[1]
    /\ snprev' = snlast
    /\ snlast' = [router |-> "route_start", ret |-> route_start(snstate)[2]]
    /\ sncalls' = sncalls + 1
    /\ UNCHANGED <<pipeVars, mergeVars, v1Vars, v2Vars, sgVars, apiVars, jobVars, rlVars>>

NextSniperRouter ==
    \/ EvalRoutePlanner
    \/ EvalRouteReflection
    \/ EvalRouteStart

InitSniperRouter ==
    PipeIdle /\ MergeIdle /\ V1Idle /\ V2Idle /\ SnInit /\ SgIdle /\ ApiIdle
        /\ JobIdle /\ RlIdle

SpecSniperRouter == InitSniperRouter /\ [][NextSniperRouter]_vars

----------------------------------------------------------------------------
(* The sniper graph of run_sniper.py *)

(* niche_discovery_node lines 46-51 *)
niche_discovery_node(st) ==
    [st EXCEPT !.category_id = "category", !.search_query = NONE]

(* planner_node lines 52-72: the queries of the reply, or [] on an error *)
planner_node(st, queries) == [st EXCEPT !.pending_queries = queries]

(* search_node lines 17-35: reads search_query and category_id, writes     *)
(* raw_listings only                                                       *)
search_node(st) == st

(* triage_node, valuation_node, analysis_node, reflection_node: none       *)
(* writes pending_queries, search_query or category_id                     *)
triage_node(st) == st
valuation_node(st) == st
analysis_node(st) == st
reflection_node(st) == st

(* add_conditional_edges lines 84-105 *)
sniper_edges(name) == IF name = "search" THEN "search" ELSE "END"

(* route_planner and route_reflection write to the state the executor      *)
(* hands them instead of returning an update.  What the graph state holds  *)
(* afterwards is the executor's business: "all" - the router was handed    *)
(* the graph state itself and every write is in it; "pop" - the router was *)
(* handed a fresh dict over the same list object, so the item assignments  *)
(* are lost and only the in-place queries.pop(0) is in the graph state;    *)
(* "none" - the router was handed a copy and nothing it wrote is kept.     *)
RouterWriteOutcomes == {"all", "pop", "none"}

RouterWrites(st, after, outcome) ==
    CASE outcome = "all"  -> after
      [] outcome = "pop"  -> [st EXCEPT !.pending_queries = after.pending_queries]
      [] outcome = "none" -> st

(* initial_state of main() lines 135-145 and of run_sniper_task *)
SgInit ==
    /\ \E q \in Queries \cup {NONE}, auto \in BOOLEAN :
         /\ sgstate = [SgInitState EXCEPT !.search_query = q, !.is_autonomous = auto]
         /\ sgnode = route_start(sgstate)[2]
    /\ sgrun = SgNoRun
    /\ sgsteps = 0

SgBudget == sgsteps < MaxSniperSteps

SgNicheDiscovery ==
    /\ sgnode = "niche_discovery" /\ SgBudget
    /\ sgstate' = niche_discovery_node(sgstate)
    /\ sgnode' = "planner"
    /\ sgsteps' = sgsteps + 1
    /\ UNCHANGED sgrun
    /\ UNCHANGED <<pipeVars, mergeVars, v1Vars, v2Vars, snVars, apiVars, jobVars, rlVars>>

SgPlanner ==
    /\ sgnode = "planner" /\ SgBudget
    /\ \E queries \in SeqsUpTo(MaxQueries), outcome \in RouterWriteOutcomes :
         LET planned == planner_node(sgstate, queries)
             routed  == route_planner(planned)
         IN  /\ sgstate' = RouterWrites(planned, routed[1], outcome)
             /\ sgnode' = sniper_edges(routed[2])
             /\ sgrun' = [planner_ran |-> TRUE, planned |-> queries, handed |-> << >>]
    /\ sgsteps' = sgsteps + 1
    /\ UNCHANGED <<pipeVars, mergeVars, v1Vars, v2Vars, snVars, apiVars, jobVars, rlVars>>

SgSearch ==
    /\ sgnode = "search" /\ SgBudget
    /\ sgstate' = search_node(sgstate)
    /\ sgrun' = [sgrun EXCEPT !.handed = Append(@, sgstate.search_query)]
    /\ sgnode' = "triage"
    /\ sgsteps' = sgsteps + 1
    /\ UNCHANGED <<pipeVars, mergeVars, v1Vars, v2Vars, snVars, apiVars, jobVars, rlVars>>

SgTriage ==
    /\ sgnode = "triage" /\ SgBudget
    /\ sgstate' = triage_node(sgstate)
    /\ sgnode' = "valuation"
    /\ sgsteps' = sgsteps + 1
    /\ UNCHANGED sgrun
    /\ UNCHANGED <<pipeVars, mergeVars, v1Vars, v2Vars, snVars, apiVars, jobVars, rlVars>>

SgValuation ==
    /\ sgnode = "valuation" /\ SgBudget
    /\ sgstate' = valuation_node(sgstate)
    /\ sgnode' = "analysis"
    /\ sgsteps' = sgsteps + 1
    /\ UNCHANGED sgrun
    /\ UNCHANGED <<pipeVars, mergeVars, v1Vars, v2Vars, snVars, apiVars, jobVars, rlVars>>

SgAnalysis ==
    /\ sgnode = "analysis" /\ SgBudget
    /\ sgstate' = analysis_node(sgstate)
    /\ sgnode' = "reflection"
    /\ sgsteps' = sgsteps + 1
    /\ UNCHANGED sgrun
    /\ UNCHANGED <<pipeVars, mergeVars, v1Vars, v2Vars, snVars, apiVars, jobVars, rlVars>>

SgReflection ==
    /\ sgnode = "reflection" /\ SgBudget
    /\ \E outcome \in RouterWriteOutcomes :
         LET reflected == reflection_node(sgstate)
             routed    == route_reflection(reflected)
         IN  /\ sgstate' = RouterWrites(reflected, routed[1], outcome)
             /\ sgnode' = sniper_edges(routed[2])
    /\ sgsteps' = sgsteps + 1
    /\ UNCHANGED sgrun
    /\ UNCHANGED <<pipeVars, mergeVars, v1Vars, v2Vars, snVars, apiVars, jobVars, rlVars>>

NextSniper ==
    \/ SgNicheDiscovery
    \/ SgPlanner
    \/ SgSearch
    \/ SgTriage
    \/ SgValuation
    \/ SgAnalysis
    \/ SgReflection

InitSniper ==
    PipeIdle /\ MergeIdle /\ V1Idle /\ V2Idle /\ SnIdle /\ SgInit /\ ApiIdle
        /\ JobIdle /\ RlIdle

SpecSniper == InitSniper /\ [][NextSniper]_vars

----------------------------------------------------------------------------
(* The sniper API of app/api/routers/sniper.py: POST /run and its          *)
(* background task                                                         *)

(* trigger_run lines 88-94: a request is refused only while the job store  *)
(* says "running"; otherwise the task is added and runs after the response *)
trigger_run_accepts(job) == job.status # "running"

TriggerRun ==
    /\ api_requests < MaxRequests
    /\ api_requests' = api_requests + 1
    /\ IF trigger_run_accepts(current_job)
       THEN /\ api_queued' = api_queued + 1
            /\ api_response' = "started"
       ELSE /\ api_queued' = api_queued
            /\ api_response' = "Job already running"
    /\ UNCHANGED <<current_job, api_running>>
    /\ UNCHANGED <<pipeVars, mergeVars, v1Vars, v2Vars, snVars, sgVars, jobVars, rlVars>>

(* run_sniper_task lines 39-43: the task starts and marks the job running *)
TaskStart ==
    /\ api_queued > 0
    /\ api_queued' = api_queued - 1
    /\ api_running' = api_running + 1
    /\ current_job' = [status |-> "running", result |-> NONE, error |-> NONE]
    /\ UNCHANGED <<api_requests, api_response>>
    /\ UNCHANGED <<pipeVars, mergeVars, v1Vars, v2Vars, snVars, sgVars, jobVars, rlVars>>

(* run_sniper_task lines 69-86: the graph returns or raises *)
TaskFinish ==
    /\ api_running > 0
    /\ api_running' = api_running - 1
    /\ \E ok \in BOOLEAN :
         current_job' =
             IF ok
             THEN [current_job EXCEPT !.status = "completed", !.result = "result"]
             ELSE [current_job EXCEPT !.status = "failed", !.error = "error"]
    /\ UNCHANGED <<api_queued, api_requests, api_response>>
    /\ UNCHANGED <<pipeVars, mergeVars, v1Vars, v2Vars, snVars, sgVars, jobVars, rlVars>>

NextSniperApi ==
    \/ TriggerRun
    \/ TaskStart
    \/ TaskFinish

InitSniperApi ==
    PipeIdle /\ MergeIdle /\ V1Idle /\ V2Idle /\ SnIdle /\ SgIdle /\ ApiIdle
        /\ JobIdle /\ RlIdle

SpecSniperApi == InitSniperApi /\ [][NextSniperApi]_vars

----------------------------------------------------------------------------
(* Content-generation jobs: JobService of app/services/job_service.py *)

(* JobStatusEnum, models.py lines 12-17 *)
PENDING   == "pending"
RUNNING   == "running"
COMPLETED == "completed"
FAILED    == "failed"

(* create_job lines 136-149: the job data of a new job *)
create_job ==
    [status |-> PENDING, completed_at |-> NONE, result |-> NONE, error |-> NONE]

(* How the graph call and the validation of run_job can end: the result is *)
(* valid, the validation fails, or an exception is raised.                 *)
RunOutcomes == {"valid", "invalid", "exception"}

(* run_job with completed_at left unset on a failed validation *)
run_job_finish_no_timestamp(job, outcome) ==
    CASE outcome = "valid" ->
           [job EXCEPT !.status = COMPLETED, !.completed_at = "now",
                       !.result = "article"]
      [] outcome = "invalid" ->
           [job EXCEPT !.status = FAILED,
                       !.error = "Validation failed", !.result = "article"]
      [] outcome = "exception" ->
           [job EXCEPT !.status = FAILED, !.completed_at = "now",
                       !.error = "exception"]

(* run_job lines 205-226: what the job data holds when run_job returns *)
run_job_finish(job, outcome) ==
    CASE outcome = "valid" ->
           [job EXCEPT !.status = COMPLETED, !.completed_at = "now",
                       !.result = "article"]
      [] outcome = "invalid" ->
           [job EXCEPT !.status = FAILED, !.completed_at = "now",
                       !.error = "Validation failed", !.result = "article"]
      [] outcome = "exception" ->
           [job EXCEPT !.status = FAILED, !.completed_at = "now",
                       !.error = "exception"]

(* generate_content, generation.py lines 34-45: create the job and add its *)
(* run_job task                                                            *)
CreateJob ==
    /\ Len(jobs) < MaxJobs
    /\ jobs' = Append(jobs, create_job)
    /\ job_tasks' = job_tasks \cup {Len(jobs) + 1}
    /\ UNCHANGED <<pipeVars, mergeVars, v1Vars, v2Vars, snVars, sgVars, apiVars, rlVars>>

(* run_job lines 169-178: the task starts and marks the job running *)
RunJobStart ==
    /\ \E job_id \in job_tasks :
         /\ job_id \in DOMAIN jobs
         /\ jobs' = [jobs EXCEPT ![job_id].status = RUNNING]
         /\ job_tasks' = job_tasks \ {job_id}
    /\ UNCHANGED <<pipeVars, mergeVars, v1Vars, v2Vars, snVars, sgVars, apiVars, rlVars>>

(* run_job lines 194-226: the graph call returns or raises *)
RunJobFinish ==
    /\ \E job_id \in DOMAIN jobs, outcome \in RunOutcomes :
         /\ jobs[job_id].status = RUNNING
         /\ jobs' = [jobs EXCEPT ![job_id] = run_job_finish(@, outcome)]
    /\ UNCHANGED job_tasks
    /\ UNCHANGED <<pipeVars, mergeVars, v1Vars, v2Vars, snVars, sgVars, apiVars, rlVars>>

NextJob ==
    \/ CreateJob
    \/ RunJobStart
    \/ RunJobFinish

InitJob ==
    PipeIdle /\ MergeIdle /\ V1Idle /\ V2Idle /\ SnIdle /\ SgIdle /\ ApiIdle
        /\ JobIdle /\ RlIdle

SpecJob == InitJob /\ [][NextJob]_vars

----------------------------------------------------------------------------
(* The eBay RateLimiter of tools/ebay_tool.py.  Time is counted in days:   *)
(* reset_time is the midnight that ends the day it was computed in.        *)

(* check_and_increment lines 23-27: a new day resets the counter *)
reset_if_new_day(rl, today) ==
    IF today >= rl.reset_time
    THEN [rl EXCEPT !.calls_today = 0, !.reset_time = today + 1]
    ELSE rl

(* check_and_increment with the limit test `>` in place of `>=` *)
check_and_increment_gt(rl, today) ==
    LET r == reset_if_new_day(rl, today)
    IN  IF r.calls_today > r.max_calls_per_day
        THEN << r, FALSE >>
        ELSE << [r EXCEPT !.calls_today = @ + 1], TRUE >>

(* check_and_increment lines 20-34: <<limiter after the call, returned>> *)
check_and_increment(rl, today) ==
    LET r == reset_if_new_day(rl, today)
    IN  IF r.calls_today >= r.max_calls_per_day
        THEN << r, FALSE >>
        ELSE << [r EXCEPT !.calls_today = @ + 1], TRUE >>

(* get_remaining_calls lines 36-38 *)
get_remaining_calls(rl) ==
    IF rl.max_calls_per_day - rl.calls_today > 0
    THEN rl.max_calls_per_day - rl.calls_today
    ELSE 0

(* RateLimiter.__init__ lines 14-18 *)
RlInit ==
    /\ now = 0
    /\ \E n \in 0..MaxCallsPerDay :
         limiter = [max_calls_per_day |-> n, calls_today |-> 0, reset_time |-> now + 1]
    /\ window = NoWindow
    /\ allowed = FALSE

(* One call of check_and_increment, as find_active_auctions and            *)
(* find_lowest_bin make it before an API request.                          *)
CheckAndIncrement ==
    /\ window.calls < MaxWindowCalls
    /\ limiter' = check_and_increment(limiter, now)[1]
    /\ allowed' = check_and_increment(limiter, now)[2]
    /\ window' =
         LET since == IF now >= limiter.reset_time THEN NoWindow ELSE window
         IN  [calls |-> since.calls + 1,
              allowed |-> since.allowed + (IF allowed' THEN 1 ELSE 0)]
    /\ UNCHANGED now
    /\ UNCHANGED <<pipeVars, mergeVars, v1Vars, v2Vars, snVars, sgVars, apiVars, jobVars>>

(* Midnight passes. *)
NextDay ==
    /\ now < MaxDays
    /\ now' = now + 1
    /\ UNCHANGED <<limiter, window, allowed>>
    /\ UNCHANGED <<pipeVars, mergeVars, v1Vars, v2Vars, snVars, sgVars, apiVars, jobVars>>

NextRateLimiter ==
    \/ CheckAndIncrement
    \/ NextDay

InitRateLimiter ==
    PipeIdle /\ MergeIdle /\ V1Idle /\ V2Idle /\ SnIdle /\ SgIdle /\ ApiIdle
        /\ JobIdle /\ RlInit

SpecRateLimiter == InitRateLimiter /\ [][NextRateLimiter]_vars

----------------------------------------------------------------------------
(* The v2 content-factory graph of graph_v2.py, run by run_content_factory *)

recursion_limit == 300

(* topic_analyzer_node lines 26-39 *)
topic_analyzer_node(st) == [st EXCEPT !.phase = "planning"]

(* parallel_research_node, source_synthesizer_node, outline_planner_node,  *)
(* outline_validator_node lines 42-88: none returns a field the routers    *)
(* read                                                                    *)
parallel_research_node(st) == st
source_synthesizer_node(st) == st
outline_planner_node(st) == st
outline_validator_node(st) == st

(* outline_validation_router lines 215-235 *)
outline_validation_router(st) ==
    IF st.outline_validated THEN "production"
    ELSE IF st.outline_planning >= 2 THEN "production" ELSE "replan"

(* add_conditional_edges lines 309-316 *)
validate_outline_edges(name) ==
    IF name = "production" THEN "write_sections" ELSE "plan_outline"

(* quality_gate_router lines 238-259 *)
quality_gate_router(st) ==
    IF st.quality_score >= 9 THEN "pass"
    ELSE IF st.refinement >= 3 THEN "fail"
    ELSE "revise"

(* add_conditional_edges lines 329-337 *)
quality_gate_edges(name) ==
    CASE name = "pass"   -> "publish"
      [] name = "revise" -> "targeted_revision"
      [] name = "fail"   -> "END"

(* parallel_section_writers_node, fact_checker_node, seo_auditor_node,     *)
(* style_editor_node, coherence_reviewer_node lines 95-171: none returns a *)
(* field the routers read                                                  *)
parallel_section_writers_node(st) == st
v2_fact_checker_node(st) == st
seo_auditor_node(st) == st
style_editor_node(st) == st
coherence_reviewer_node(st) == st

(* assembler_node lines 107-120 *)
v2_assembler_node(st) == [st EXCEPT !.phase = "refinement"]

(* quality_gate_node lines 174-184: the score returned is always 5.0 *)
quality_gate_node(st) == [st EXCEPT !.quality_score = 5]

(* targeted_reviser_node lines 187-196: returns {} *)
targeted_reviser_node(st) == st

(* States a caller hands to the compiled graph that                        *)
(* build_content_factory_graph returns: the state of create_initial_state  *)
(* (run_content_factory), or one resumed with an outline already validated *)
(* and iterations already counted.                                         *)
V2CallerStates ==
    { [V2InitState EXCEPT !.outline_validated = v,
                          !.outline_planning = p,
                          !.refinement = r] :
        v \in BOOLEAN, p \in 0..2, r \in 0..3 }

V2Init ==
    /\ v2node = "analyze_topic"
    /\ v2state \in V2CallerStates
    /\ v2steps = 0
    /\ v2runs = V2NoRuns

(* The executor takes a step only while the step budget is not used up. *)
V2Budget == v2steps < recursion_limit

V2AnalyzeTopic ==
    /\ v2node = "analyze_topic" /\ V2Budget
    /\ v2state' = topic_analyzer_node(v2state)
    /\ v2node' = "parallel_research"
    /\ UNCHANGED v2runs
    /\ v2steps' = v2steps + 1
    /\ UNCHANGED <<pipeVars, mergeVars, v1Vars, snVars, sgVars, apiVars, jobVars, rlVars>>

V2ParallelResearch ==
    /\ v2node = "parallel_research" /\ V2Budget
    /\ v2state' = parallel_research_node(v2state)
    /\ v2node' = "synthesize_sources"
    /\ UNCHANGED v2runs
    /\ v2steps' = v2steps + 1
    /\ UNCHANGED <<pipeVars, mergeVars, v1Vars, snVars, sgVars, apiVars, jobVars, rlVars>>

V2SynthesizeSources ==
    /\ v2node = "synthesize_sources" /\ V2Budget
    /\ v2state' = source_synthesizer_node(v2state)
    /\ v2node' = "plan_outline"
    /\ UNCHANGED v2runs
    /\ v2steps' = v2steps + 1
    /\ UNCHANGED <<pipeVars, mergeVars, v1Vars, snVars, sgVars, apiVars, jobVars, rlVars>>

V2PlanOutline ==
    /\ v2node = "plan_outline" /\ V2Budget
    /\ v2state' = outline_planner_node(v2state)
    /\ v2node' = "validate_outline"
    /\ UNCHANGED v2runs
    /\ v2steps' = v2steps + 1
    /\ UNCHANGED <<pipeVars, mergeVars, v1Vars, snVars, sgVars, apiVars, jobVars, rlVars>>

V2ValidateOutline ==
    /\ v2node = "validate_outline" /\ V2Budget
    /\ v2state' = outline_validator_node(v2state)
    /\ v2node' = validate_outline_edges(outline_validation_router(v2state'))
    /\ v2runs' = IF outline_validation_router(v2state') = "replan"
                 THEN [v2runs EXCEPT !.replans = @ + 1]
                 ELSE v2runs
    /\ v2steps' = v2steps + 1
    /\ UNCHANGED <<pipeVars, mergeVars, v1Vars, snVars, sgVars, apiVars, jobVars, rlVars>>

V2WriteSections ==
    /\ v2node = "write_sections" /\ V2Budget
    /\ v2state' = parallel_section_writers_node(v2state)
    /\ v2node' = "assemble_draft"
    /\ UNCHANGED v2runs
    /\ v2steps' = v2steps + 1
    /\ UNCHANGED <<pipeVars, mergeVars, v1Vars, snVars, sgVars, apiVars, jobVars, rlVars>>

V2AssembleDraft ==
    /\ v2node = "assemble_draft" /\ V2Budget
    /\ v2state' = v2_assembler_node(v2state)
    /\ v2node' = "fact_check"
    /\ UNCHANGED v2runs
    /\ v2steps' = v2steps + 1
    /\ UNCHANGED <<pipeVars, mergeVars, v1Vars, snVars, sgVars, apiVars, jobVars, rlVars>>

V2FactCheck ==
    /\ v2node = "fact_check" /\ V2Budget
    /\ v2state' = v2_fact_checker_node(v2state)
    /\ v2node' = "seo_audit"
    /\ UNCHANGED v2runs
    /\ v2steps' = v2steps + 1
    /\ UNCHANGED <<pipeVars, mergeVars, v1Vars, snVars, sgVars, apiVars, jobVars, rlVars>>

V2SeoAudit ==
    /\ v2node = "seo_audit" /\ V2Budget
    /\ v2state' = seo_auditor_node(v2state)
    /\ v2node' = "style_edit"
    /\ UNCHANGED v2runs
    /\ v2steps' = v2steps + 1
    /\ UNCHANGED <<pipeVars, mergeVars, v1Vars, snVars, sgVars, apiVars, jobVars, rlVars>>

V2StyleEdit ==
    /\ v2node = "style_edit" /\ V2Budget
    /\ v2state' = style_editor_node(v2state)
    /\ v2node' = "coherence_review"
    /\ UNCHANGED v2runs
    /\ v2steps' = v2steps + 1
    /\ UNCHANGED <<pipeVars, mergeVars, v1Vars, snVars, sgVars, apiVars, jobVars, rlVars>>

V2CoherenceReview ==
    /\ v2node = "coherence_review" /\ V2Budget
    /\ v2state' = coherence_reviewer_node(v2state)
    /\ v2node' = "quality_gate"
    /\ UNCHANGED v2runs
    /\ v2steps' = v2steps + 1
    /\ UNCHANGED <<pipeVars, mergeVars, v1Vars, snVars, sgVars, apiVars, jobVars, rlVars>>

(* The score quality_gate_node returns is below 9.0 on every run, so the   *)
(* router never returns "pass" and the publish node is never scheduled.    *)
V2QualityGate ==
    /\ v2node = "quality_gate" /\ V2Budget
    /\ v2state' = quality_gate_node(v2state)
    /\ v2node' = quality_gate_edges(quality_gate_router(v2state'))
    /\ UNCHANGED v2runs
    /\ v2steps' = v2steps + 1
    /\ UNCHANGED <<pipeVars, mergeVars, v1Vars, snVars, sgVars, apiVars, jobVars, rlVars>>

V2TargetedRevision ==
    /\ v2node = "targeted_revision" /\ V2Budget
    /\ v2state' = targeted_reviser_node(v2state)
    /\ v2node' = "quality_gate"
    /\ v2runs' = [v2runs EXCEPT !.revisions = @ + 1]
    /\ v2steps' = v2steps + 1
    /\ UNCHANGED <<pipeVars, mergeVars, v1Vars, snVars, sgVars, apiVars, jobVars, rlVars>>

(* app.invoke lines 374-377: with the budget used up before END the        *)
(* executor raises GraphRecursionError; run_content_factory has no handler *)
(* and the error reaches its caller                                        *)
V2BudgetExhausted ==
    /\ v2node \notin {"END", "GraphRecursionError"}
    /\ ~V2Budget
    /\ v2node' = "GraphRecursionError"
    /\ UNCHANGED <<v2state, v2steps, v2runs>>
    /\ UNCHANGED <<pipeVars, mergeVars, v1Vars, snVars, sgVars, apiVars, jobVars, rlVars>>

NextV2 ==
    \/ V2AnalyzeTopic
    \/ V2ParallelResearch
    \/ V2SynthesizeSources
    \/ V2PlanOutline
    \/ V2ValidateOutline
    \/ V2WriteSections
    \/ V2AssembleDraft
    \/ V2FactCheck
    \/ V2SeoAudit
    \/ V2StyleEdit
    \/ V2CoherenceReview
    \/ V2QualityGate
    \/ V2TargetedRevision
    \/ V2BudgetExhausted

InitV2 ==
    PipeIdle /\ MergeIdle /\ V1Idle /\ V2Init /\ SnIdle /\ SgIdle /\ ApiIdle
        /\ JobIdle /\ RlIdle

SpecV2 == InitV2 /\ [][NextV2]_vars

----------------------------------------------------------------------------
(* Properties *)

(* C1: with maxRevisions = 3 a run performs at most 3 refine applications, *)
(* whatever the quality gates report.                                      *)
C1_AtMostMaxRefines == refines <= MaxRevisions

(* C2: the revision counter only ever changes by a refine application      *)
(* adding exactly 1; no other stage decrements or resets it.               *)
C2_CounterOnlyIncrements ==
    [][ \/ state'.revision_number = state.revision_number
        \/ /\ last'.node = "refiner"
           /\ state'.revision_number = state.revision_number + 1 ]_vars

(* C3: right after a refine application both feedback and fact_errors are  *)
(* empty.                                                                  *)
C3_FieldsEmptyAfterRefine ==
    (last.node = "refiner" /\ last.branch = "ok")
        => (state.feedback = NONE /\ state.fact_errors = NONE)

(* C4: after a revise application the next stage is never the audit.       *)
C4_NoAuditRightAfterRevise ==
    v1last = "reviser" => v1node # "auditor"

(* C5 as stated: when fact verification reports errors the next stage is   *)
(* refine.                                                                 *)
C5_ErrorsThenRefine ==
    (last.node = "fact_checker" /\ last.branch = "errors") => stage = "refiner"

(* C5 amended: when fact verification reports errors the next stage is     *)
(* refine, or the terminal stage exactly when the revision counter has     *)
(* reached maxRevisions; it is never the audit.                            *)
C5_ErrorsThenRefineOrEnd ==
    (last.node = "fact_checker" /\ last.branch = "errors")
        => /\ stage \in {"refiner", "END"}
           /\ (stage = "END" <=> state.revision_number >= MaxRevisions)
           /\ state.fact_errors # NONE

C5_Witness ==
    /\ last.node = "fact_checker" /\ last.branch = "errors"
    /\ stage = "refiner"
    /\ refines = 1

(* C6: the text handed to assembly holds exactly one body per section of   *)
(* the Blueprint, in order-index order, whatever order the units finished  *)
(* in.                                                                     *)
C6_DraftInSectionOrder ==
    stage \in {"fact_checker", "refiner", "auditor", "END", "ERROR"}
        => /\ Len(draft_body) = blueprint
           /\ \A i \in 1..Len(draft_body) : draft_body[i][2] = i - 1

(* units finished C, A, B; the draft reads A, B, C *)
C6_Witness ==
    /\ stage = "fact_checker"
    /\ blueprint = 3
    /\ [i \in 1..Len(state.sections_content) |-> state.sections_content[i]["order"]]
         = <<2, 0, 1>>
    /\ [i \in 1..Len(draft_body) |-> draft_body[i][2]] = <<0, 1, 2>>

(* C7: every finished unit has exactly one result at its own order index,  *)
(* the error placeholder if its chain raised and the written section       *)
(* otherwise, so the section list handed on holds one entry per section.   *)
ResultsSoFar == Reduce(state.sections_content, emitted)

C7_FailedUnitEmitsPlaceholder ==
    /\ \A order \in FanOutUnits(blueprint) \ pending :
         LET at == { i \in 1..Len(ResultsSoFar) : ResultsSoFar[i]["order"] = order }
         IN  /\ Cardinality(at) = 1
             /\ \A i \in at :
                  ResultsSoFar[i]["content"][1] =
                     IF order \in failed THEN "Error writing this section"
                                         ELSE "section"
    /\ stage \in {"assembler", "fact_checker", "refiner", "auditor", "END", "ERROR"}
         => Len(state.sections_content) = blueprint

C7_Witness ==
    /\ stage = "fact_checker"
    /\ blueprint = 3
    /\ failed = {1}
    /\ Len(draft_body) = 3
    /\ draft_body[2][1] = "Error writing this section"
    /\ draft_body[1][1] = "section" /\ draft_body[3][1] = "section"

(* C8: merging the same completed result set a second time leaves the      *)
(* section list as the first merge left it.                                *)
C8_MergeIdempotent == merges >= 1 => acc = once

(* C9: the section list never holds two results with one order index.      *)
C9_OneResultPerOrder ==
    \A i, j \in 1..Len(acc) : acc[i]["order"] = acc[j]["order"] => i = j

(* C10: when the FactVerifier chain raises, fact_errors is empty           *)
(* afterwards and the next stage is the audit.                             *)
C10_FactCheckerPassOpen ==
    (last.node = "fact_checker" /\ last.branch = "exception")
        => (state.fact_errors = NONE /\ stage = "auditor")

(* the chain raises on the re-check that follows a refine for fact errors *)
C10_Witness ==
    /\ last.node = "fact_checker" /\ last.branch = "exception"
    /\ refines >= 1
    /\ state.revision_number >= 1
    /\ stage = "auditor"

(* C11: when the QualityAuditor chain raises, no audit feedback is         *)
(* outstanding afterwards and the run goes to the terminal stage.          *)
C11_AuditorPassOpen ==
    (last.node = "auditor" /\ last.branch = "exception")
        => (state.feedback = NONE /\ stage = "END")

(* C12: when every audit of the run failed and the run has ended after an  *)
(* audit, exactly 3 refinements were made, the final article is the text   *)
(* of the 3rd refinement, and the diagnostic flag is set.                  *)
C12_ThreeRefinesThenFlag ==
    (stage = "END" /\ last.node = "auditor" /\ audit_always_failed)
        => /\ refines = MaxRevisions
           /\ state.final_article = RefinedText(MaxRevisions)
           /\ diagnostic_flag(state)

(* C13: a run that uses up the executor's step budget ends without a fault *)
(* reaching the caller.                                                    *)
C13_BudgetExhaustionRaisesNothing == v2node # "GraphRecursionError"

(* C14: the name a router returns is a key of the path map declared for    *)
(* its conditional edge.                                                   *)
C14_RouterReturnsDeclaredName ==
    /\ v1last = "critique" => v1route \in DOMAIN main_critique_map
    /\ v1last = "reviser"  => v1route \in DOMAIN main_reviser_map

(* C15: a router call changes no field of the state it is given, and the   *)
(* same router called again on that state returns the same name.           *)
C15_RouterIsPureRead ==
    /\ sncalls >= 1 => snstate = snbefore
    /\ (sncalls >= 2 /\ snprev.router = snlast.router) => snlast.ret = snprev.ret

(* C16: the first stage a run executes is topic discovery when the         *)
(* discovery/niche flags of the initial state are set, and planning        *)
(* otherwise.                                                              *)
C16_FirstStageFollowsFlags ==
    Len(v1state.messages) = 1 =>
        v1last = IF v1input.discover_mode \/ v1input.niche # NONE
                 THEN "trend_analyzer"
                 ELSE "planner"

C18_FailedRefineChangesNothing ==
    [][ (stage = "refiner" /\ steps' # steps /\ last'.branch = "exception") =>
            /\ state'.final_article = state.final_article
            /\ state'.revision_number = state.revision_number
            /\ state'.feedback = state.feedback
            /\ state' = state
            /\ file' = file
      ]_vars

(* C18 witness: the refiner has just failed on a stored article that       *)
(* carries feedback.                                                       *)
C18_Witness ==
    /\ last = [node |-> "refiner", branch |-> "exception"]
    /\ state.feedback # NONE
    /\ state.final_article = AssembledText
    /\ file = AssembledText

(* C19: in the v1 graph every reviser step raises revision_count by        *)
(* exactly 1 and starts with revision_count below 3, no other step changes *)
(* revision_count, and the step that brings it to 3 ends the workflow.     *)
C19_AtMostThreeRevisions ==
    [][ IF v1node = "reviser"
        THEN /\ v1state.revision_count < 3
             /\ v1state'.revision_count = v1state.revision_count + 1
             /\ v1state'.revision_count = 3 => v1node' = "END"
        ELSE v1state'.revision_count = v1state.revision_count
      ]_vars

(* C19 witness: the workflow has ended after the third revision with no    *)
(* message scoring 9 or more.                                              *)
C19_Witness ==
    /\ v1node = "END"
    /\ v1last = "reviser"
    /\ v1state.revision_count = 3
    /\ \A i \in 1..Len(v1state.messages) :
         v1state.messages[i].score = NoScore \/ v1state.messages[i].score < 9

(* C20: below the revision maximum, should_continue_revising returns "end" *)
(* exactly when the newest message that carries a score has a score of 9   *)
(* or more.                                                                *)
C20_NewestScoreDecides ==
    (v1last = "reviser" /\ v1state.revision_count < 3) =>
        LET scored == { i \in 1..Len(v1state.messages) :
                          v1state.messages[i].score # NoScore }
        IN  (v1route = "end") <=>
                /\ scored # {}
                /\ \E i \in scored :
                     /\ \A j \in scored : j <= i
                     /\ v1state.messages[i].score >= 9

C23_AtMostTwoReplans == v2runs.replans <= 2

(* C24: in a sniper run with a planner, the queries the search stage has   *)
(* run with are the first queries of the planner's list, in the planner's  *)
(* order, and when the run has ended they are the whole list and           *)
(* pending_queries is empty.                                               *)
C24_PlannedQueriesSearchedInOrder ==
    sgrun.planner_ran =>
        /\ Len(sgrun.handed) <= Len(sgrun.planned)
        /\ sgrun.handed = SubSeq(sgrun.planned, 1, Len(sgrun.handed))
        /\ sgnode = "END" =>
             /\ sgrun.handed = sgrun.planned
             /\ sgstate.pending_queries = << >>

(* C25: at most one run_sniper_task is in progress at any time.            *)
C25_AtMostOneSniperJob == api_running <= 1

C27_FirstNCallsAllowed ==
    /\ [](/\ limiter.calls_today <= limiter.max_calls_per_day
          /\ get_remaining_calls(limiter) >= 0
          /\ limiter.calls_today = window.allowed
          /\ window.allowed = IF window.calls <= limiter.max_calls_per_day
                              THEN window.calls
                              ELSE limiter.max_calls_per_day
          /\ window.calls > 0 =>
               (allowed <=> window.calls <= limiter.max_calls_per_day))
    /\ [][ (window' # window /\ ~allowed') =>
               limiter'.calls_today = limiter.calls_today ]_vars

(* C27 witness: a limiter with a positive limit has refused two calls      *)
(* after allowing exactly max_calls_per_day of them.                       *)
C27_Witness ==
    /\ limiter.max_calls_per_day > 0
    /\ window.calls = limiter.max_calls_per_day + 2
    /\ window.allowed = limiter.max_calls_per_day
    /\ ~allowed
    /\ get_remaining_calls(limiter) = 0

====
